---- MODULE Spec2Model ----
(***************************************************************************)
(* Model of SimpleMCPServer (src/simple_mcp_server.py): a JSON-RPC         *)
(* dispatcher over a table of mock weather records.                        *)
(*                                                                         *)
(* Python values are tagged records [t |-> <python type name>, v |-> ...]. *)
(* Strings the code inspects character by character (locations, uris,     *)
(* table keys) are sequences of one-character strings; strings the code    *)
(* only compares for equality (method, tool and prompt names) are atoms.   *)
(* A dict is a function from its keys to values; the weather table, whose  *)
(* iteration order the code depends on, is a sequence of key/data entries. *)
(***************************************************************************)
EXTENDS Integers, Sequences, FiniteSets, TLC

VARIABLES
    weather_data,   \* self.weather_data, the table of the server
    pc,             \* where the caller of the server stands
    request,        \* the request built by the caller
    response,       \* what handle_request gave back for it
    previous        \* history: how the request before this one ended

vars == <<weather_data, pc, request, response, previous>>

---------------------------------------------------------------------------
(* Bounds of the model *)

\* longest generated location string (all strings over LocationAlphabet)
MaxLocLen == 2

\* largest forecast day count tried
MaxDays == 17

\* number of distinct readings of the clock (datetime.now())
MaxClock == 2

\* largest request id tried
MaxId == 1

---------------------------------------------------------------------------
(* Python values *)

PyStr(s) == [t |-> "str", v |-> s]

PyInt(n) == [t |-> "int", v |-> n]

PyBool(b) == [t |-> "bool", v |-> b]

PyFloat(s) == [t |-> "float", v |-> s]

PyList(s) == [t |-> "list", v |-> s]

PyDict(m) == [t |-> "dict", v |-> m]

None == [t |-> "NoneType"]

\* marks a key left out of a dict under construction; never a value
Absent == [t |-> "absent"]

EmptyDict == PyDict(<<>>)

\* the dict holding the entries of the record full that are not Absent
MkDict(full) == PyDict([k \in {x \in DOMAIN full : full[x] # Absent} |-> full[k]])

\* d.get(key, default) on a dict
Get(d, key, default) == IF key \in DOMAIN d.v THEN d.v[key] ELSE default

\* type(x).__name__
TypeName(x) == x.t

\* hasattr(x, attr) for the attributes the server uses
HasAttr(x, attr) ==
    CASE attr = "get" -> x.t = "dict"
      [] attr \in {"lower", "startswith", "replace"} -> x.t = "str"
      [] OTHER -> FALSE

\* str(e) of the AttributeError raised by x.attr
AttributeError(x, attr) ==
    [exc |-> "AttributeError", type |-> TypeName(x), text |-> "object has no attribute", name |-> attr]

\* str(e) of the TypeError raised by range(x)
TypeError(x) ==
    [exc |-> "TypeError", type |-> TypeName(x), text |-> "object cannot be interpreted as an integer", name |-> "range"]

---------------------------------------------------------------------------
(* Python string operations, on sequences of characters *)

UpperCase ==
    <<"A","B","C","D","E","F","G","H","I","J","K","L","M",
      "N","O","P","Q","R","S","T","U","V","W","X","Y","Z">>

LowerCase ==
    <<"a","b","c","d","e","f","g","h","i","j","k","l","m",
      "n","o","p","q","r","s","t","u","v","w","x","y","z">>

LowerChar(c) ==
    IF \E i \in DOMAIN UpperCase : UpperCase[i] = c
    THEN LowerCase[CHOOSE i \in DOMAIN UpperCase : UpperCase[i] = c]
    ELSE c

UpperChar(c) ==
    IF \E i \in DOMAIN LowerCase : LowerCase[i] = c
    THEN UpperCase[CHOOSE i \in DOMAIN LowerCase : LowerCase[i] = c]
    ELSE c

\* s.lower()
Lower(s) == [i \in DOMAIN s |-> LowerChar(s[i])]

\* s.startswith(prefix)
StartsWith(s, prefix) ==
    /\ Len(prefix) <= Len(s)
    /\ SubSeq(s, 1, Len(prefix)) = prefix

\* s.replace(old, new), old not empty: the occurrences of old, found left
\* to right without overlap, are each replaced by new
RECURSIVE Replace(_, _, _)
Replace(s, old, new) ==
    IF Len(s) < Len(old) THEN s
    ELSE IF StartsWith(s, old)
         THEN new \o Replace(SubSeq(s, Len(old) + 1, Len(s)), old, new)
         ELSE <<Head(s)>> \o Replace(Tail(s), old, new)

\* sub in s
Contains(s, sub) ==
    \E i \in 0..(Len(s) - Len(sub)) : SubSeq(s, i + 1, i + Len(sub)) = sub

---------------------------------------------------------------------------
(* The weather table, SimpleMCPServer.__init__ *)

new_york == <<"n","e","w","_","y","o","r","k">>

london == <<"l","o","n","d","o","n">>

tokyo == <<"t","o","k","y","o">>

SeedTimestamp == PyStr("2024-01-15T14:30:00Z")

NewYorkRecord ==
    [location |-> <<"N","e","w"," ","Y","o","r","k",","," ","N","Y">>,
     temperature |-> 72, humidity |-> 65, conditions |-> "Partly cloudy",
     wind_speed |-> 8, last_updated |-> SeedTimestamp]

LondonRecord ==
    [location |-> <<"L","o","n","d","o","n",","," ","U","K">>,
     temperature |-> 18, humidity |-> 78, conditions |-> "Overcast",
     wind_speed |-> 12, last_updated |-> SeedTimestamp]

TokyoRecord ==
    [location |-> <<"T","o","k","y","o",","," ","J","a","p","a","n">>,
     temperature |-> 25, humidity |-> 60, conditions |-> "Clear",
     wind_speed |-> 5, last_updated |-> SeedTimestamp]

InitialWeatherData ==
    << [key |-> new_york, data |-> NewYorkRecord],
       [key |-> london, data |-> LondonRecord],
       [key |-> tokyo, data |-> TokyoRecord] >>

\* the keys of the table, in iteration order
Keys(wd) == [i \in DOMAIN wd |-> wd[i].key]

\* key in table
HasKey(wd, key) == \E i \in DOMAIN wd : wd[i].key = key

\* table[key]
Item(wd, key) == wd[CHOOSE i \in DOMAIN wd : wd[i].key = key].data

---------------------------------------------------------------------------
(* Outcome of a call: a value returned or an exception raised, with the   *)
(* weather table as the call leaves it                                     *)

Return(value, wd) == [kind |-> "return", value |-> value, wd |-> wd]

Raise(e, wd) == [kind |-> "raise", value |-> e, wd |-> wd]

\* f"{text}{arg}"
FString(text, arg) == [text |-> text, arg |-> arg]

\* json.dumps(value, indent=2): the text is represented by the value it
\* serialises (the serialisation is injective on the values the server dumps)
json_dumps(value) == [json |-> value]

\* str(n) for n >= 0: the decimal digits of n
Digits == <<"0","1","2","3","4","5","6","7","8","9">>

RECURSIVE Decimal(_)
Decimal(n) ==
    IF n < 10 THEN <<Digits[n + 1]>>
    ELSE Decimal(n \div 10) \o <<Digits[(n % 10) + 1]>>

---------------------------------------------------------------------------
(* SimpleMCPServer.error_response *)

error_response(request_id, code, message) ==
    [jsonrpc |-> "2.0", id |-> request_id,
     error |-> [code |-> code, message |-> message]]

\* a success envelope, as every handler builds it
result_response(request_id, result) ==
    [jsonrpc |-> "2.0", id |-> request_id, result |-> result]

---------------------------------------------------------------------------
(* SimpleMCPServer.get_weather_data *)

\* variant: the spaces are stripped, not replaced by underscores
location_key_stripped(location) ==
    Replace(Replace(Lower(location), <<" ">>, <<>>), <<",">>, <<>>)

\* variant: the location is not lowercased
location_key_no_lower(location) ==
    Replace(Replace(location, <<" ">>, <<"_">>), <<",">>, <<>>)

\* location.lower().replace(" ", "_").replace(",", "")
location_key_of(location) ==
    Replace(Replace(Lower(location), <<" ">>, <<"_">>), <<",">>, <<>>)

\* variant: only a key found within the location matches
key_matches_one_way(key, location_key) == Contains(location_key, key)

\* key in location_key or location_key in key
key_matches(key, location_key) ==
    Contains(location_key, key) \/ Contains(key, location_key)

\* variant: the generic record names the normalized location
generic_weather_normalized(location, now) ==
    [location |-> Replace(Replace(Lower(location), <<" ">>, <<"_">>), <<",">>, <<>>),
     temperature |-> 20, humidity |-> 70,
     conditions |-> "Unknown", wind_speed |-> 10,
     last_updated |-> [t |-> "isoformat", v |-> now]]

\* the generic record returned when no key matches
generic_weather(location, now) ==
    [location |-> location, temperature |-> 20, humidity |-> 70,
     conditions |-> "Unknown", wind_speed |-> 10,
     last_updated |-> [t |-> "isoformat", v |-> now]]

\* variant: the loop does not stop at the first match, the last one is kept
first_match_last(wd, location_key) ==
    wd[CHOOSE i \in DOMAIN wd :
          /\ key_matches(wd[i].key, location_key)
          /\ \A j \in (i + 1)..Len(wd) : ~key_matches(wd[j].key, location_key)].data

\* the data of the first entry, in table order, whose key matches
first_match(wd, location_key) ==
    wd[CHOOSE i \in DOMAIN wd :
          /\ key_matches(wd[i].key, location_key)
          /\ \A j \in 1..(i - 1) : ~key_matches(wd[j].key, location_key)].data

\* variant: a generic record is kept in the table under its location key
get_weather_data_caching(wd, now, location) ==
    IF ~HasAttr(location, "lower")
    THEN Raise(AttributeError(location, "lower"), wd)
    ELSE LET location_key == location_key_of(location.v)
         IN IF \E i \in DOMAIN wd : key_matches(wd[i].key, location_key)
            THEN Return(first_match(wd, location_key), wd)
            ELSE Return(generic_weather(location.v, now),
                        Append(wd, [key |-> location_key,
                                    data |-> generic_weather(location.v, now)]))

get_weather_data(wd, now, location) ==
    IF ~HasAttr(location, "lower")
    THEN Raise(AttributeError(location, "lower"), wd)
    ELSE LET location_key == location_key_of(location.v)
         IN IF \E i \in DOMAIN wd : key_matches(wd[i].key, location_key)
            THEN Return(first_match(wd, location_key), wd)
            ELSE Return(generic_weather(location.v, now), wd)

---------------------------------------------------------------------------
(* SimpleMCPServer.get_weather and get_weather_forecast *)

get_weather(wd, now, request_id, location) ==
    LET looked == get_weather_data(wd, now, location)
    IN IF looked.kind = "raise" THEN looked
       ELSE Return(result_response(request_id,
                [content |-> <<[type |-> "text", text |-> json_dumps(looked.value)]>>]),
              looked.wd)

\* can range(days) be built: days has an __index__
IsIndex(days) == days.t \in {"int", "bool"}

\* variant: the day count is held within the advertised 1 to 7
IndexOf_clamped(days) ==
    LET n == IF days.t = "bool" THEN (IF days.v THEN 1 ELSE 0) ELSE days.v
    IN IF n < 1 THEN 1 ELSE IF n > 7 THEN 7 ELSE n

\* the integer range(days) counts to
IndexOf(days) == IF days.t = "bool" THEN (IF days.v THEN 1 ELSE 0) ELSE days.v

\* f"2024-01-{16 + i}"
forecast_date(i) == <<"2","0","2","4","-","0","1","-">> \o Decimal(16 + i)

\* variant: the temperature moves by i * 2, without the - 2
day_weather_no_offset(base_weather, i) ==
    [k \in DOMAIN base_weather \cup {"date"} |->
        CASE k = "date" -> forecast_date(i)
          [] k = "temperature" -> base_weather.temperature + (i * 2)
          [] OTHER -> base_weather[k]]

\* one pass of the loop body: a copy of base_weather with its temperature
\* moved by (i * 2) - 2 and a date added
day_weather(base_weather, i) ==
    [k \in DOMAIN base_weather \cup {"date"} |->
        CASE k = "date" -> forecast_date(i)
          [] k = "temperature" -> base_weather.temperature + ((i * 2) - 2)
          [] OTHER -> base_weather[k]]

\* variant: base_weather is not copied, so every pass of the loop writes the
\* one record, which is the record of the table when a key matched
get_weather_forecast_in_place(wd, now, request_id, location, days) ==
    LET looked == get_weather_data(wd, now, location)
    IN IF looked.kind = "raise" THEN looked
       ELSE IF ~IsIndex(days) THEN Raise(TypeError(days), looked.wd)
       ELSE LET n == IF IndexOf(days) > 0 THEN IndexOf(days) ELSE 0
                written ==
                    IF n = 0 THEN looked.value
                    ELSE [k \in DOMAIN looked.value \cup {"date"} |->
                            CASE k = "date" -> forecast_date(n - 1)
                              [] k = "temperature" ->
                                    looked.value.temperature + (n * (n - 1)) - (2 * n)
                              [] OTHER -> looked.value[k]]
                forecast == [j \in 1..n |-> written]
            IN Return(result_response(request_id,
                  [content |-> <<[type |-> "text",
                       text |-> json_dumps([location |-> location,
                                            forecast_days |-> days,
                                            forecast |-> forecast])]>>]),
                 [j \in DOMAIN looked.wd |->
                     IF looked.wd[j].data = looked.value
                     THEN [key |-> looked.wd[j].key, data |-> written]
                     ELSE looked.wd[j]])

get_weather_forecast(wd, now, request_id, location, days) ==
    LET looked == get_weather_data(wd, now, location)
    IN IF looked.kind = "raise" THEN looked
       ELSE IF ~IsIndex(days) THEN Raise(TypeError(days), looked.wd)
       ELSE LET n == IF IndexOf(days) > 0 THEN IndexOf(days) ELSE 0
                forecast == [j \in 1..n |-> day_weather(looked.value, j - 1)]
            IN Return(result_response(request_id,
                  [content |-> <<[type |-> "text",
                       text |-> json_dumps([location |-> location,
                                            forecast_days |-> days,
                                            forecast |-> forecast])]>>]),
                 looked.wd)

---------------------------------------------------------------------------
(* The handlers *)

ProtocolVersion == "2024-11-05"

\* variant: the protocol version the client asks for is given back
handle_initialize_negotiating(wd, request_id, params) ==
    IF ~HasAttr(params, "get") THEN Raise(AttributeError(params, "get"), wd)
    ELSE Return(result_response(request_id,
              [protocolVersion |-> Get(params, "protocolVersion", PyStr(ProtocolVersion)).v,
               capabilities |-> [resources |-> EmptyDict, tools |-> EmptyDict,
                                 prompts |-> EmptyDict, logging |-> EmptyDict],
               serverInfo |-> [name |-> "simple-weather-mcp-server",
                               version |-> "1.0.0"]]),
           wd)

handle_initialize(wd, request_id, params) ==
    Return(result_response(request_id,
              [protocolVersion |-> ProtocolVersion,
               capabilities |-> [resources |-> EmptyDict, tools |-> EmptyDict,
                                 prompts |-> EmptyDict, logging |-> EmptyDict],
               serverInfo |-> [name |-> "simple-weather-mcp-server",
                               version |-> "1.0.0"]]),
           wd)

WeatherScheme == <<"w","e","a","t","h","e","r",":","/","/">>

\* variant: the uri is built from the display name of the city
resource_uri_from_location(city_key, data) == WeatherScheme \o Lower(data.location)

\* f"weather://{city_key}"
resource_uri(city_key, data) == WeatherScheme \o city_key

handle_list_resources(wd, request_id) ==
    Return(result_response(request_id,
              [resources |->
                 [i \in DOMAIN wd |->
                    [uri |-> resource_uri(wd[i].key, wd[i].data),
                     name |-> FString("Weather for ", wd[i].data.location),
                     description |-> FString("Current weather conditions in ",
                                             wd[i].data.location),
                     mimeType |-> "application/json"]]]),
           wd)

\* variant: the scheme is removed without checking that the uri starts with it
handle_read_resource_unchecked(wd, request_id, params) ==
    IF ~HasAttr(params, "get") THEN Raise(AttributeError(params, "get"), wd)
    ELSE LET uri == Get(params, "uri", PyStr(<<>>))
         IN IF ~HasAttr(uri, "replace")
            THEN Raise(AttributeError(uri, "replace"), wd)
            ELSE LET city_key == Replace(uri.v, WeatherScheme, <<>>)
                 IN IF ~HasKey(wd, city_key)
                    THEN Return(error_response(request_id, -32602,
                                    FString("Unknown city: ", PyStr(city_key))), wd)
                    ELSE Return(result_response(request_id,
                                    [contents |-> <<[type |-> "text",
                                         text |-> json_dumps(Item(wd, city_key))]>>]),
                                wd)

handle_read_resource(wd, request_id, params) ==
    IF ~HasAttr(params, "get") THEN Raise(AttributeError(params, "get"), wd)
    ELSE LET uri == Get(params, "uri", PyStr(<<>>))
         IN IF ~HasAttr(uri, "startswith")
            THEN Raise(AttributeError(uri, "startswith"), wd)
            ELSE IF ~StartsWith(uri.v, WeatherScheme)
            THEN Return(error_response(request_id, -32602,
                            FString("Unknown resource URI: ", uri)), wd)
            ELSE LET city_key == Replace(uri.v, WeatherScheme, <<>>)
                 IN IF ~HasKey(wd, city_key)
                    THEN Return(error_response(request_id, -32602,
                                    FString("Unknown city: ", PyStr(city_key))), wd)
                    ELSE Return(result_response(request_id,
                                    [contents |-> <<[type |-> "text",
                                         text |-> json_dumps(Item(wd, city_key))]>>]),
                                wd)

ToolNames == <<"get_weather", "get_weather_forecast">>

handle_list_tools(wd, request_id) ==
    Return(result_response(request_id,
              [tools |->
                 << [name |-> ToolNames[1],
                     description |-> "Get current weather information for a specified location",
                     inputSchema |-> [type |-> "object",
                                      properties |-> <<"location">>,
                                      required |-> <<"location">>]],
                    [name |-> ToolNames[2],
                     description |-> "Get weather forecast for a specified location",
                     inputSchema |-> [type |-> "object",
                                      properties |-> <<"location", "days">>,
                                      required |-> <<"location">>]] >>]),
           wd)

\* == between a value of the request and a string literal of the code
IsLiteral(x, literal) == x.t = "str" /\ x.v = literal

\* variant: an unknown tool is reported as a method that was not found
unknown_tool_not_found(request_id, tool_name) ==
    error_response(request_id, -32601, FString("Unknown tool: ", tool_name))

\* the else branch of handle_call_tool
unknown_tool(request_id, tool_name) ==
    error_response(request_id, -32602, FString("Unknown tool: ", tool_name))

\* variant: the exception message is passed on as it is
tool_execution_failed_unprefixed(request_id, e) ==
    error_response(request_id, -32603, e)

\* the except branch of handle_call_tool
tool_execution_failed(request_id, e) ==
    error_response(request_id, -32603, FString("Tool execution failed: ", e))

\* the body of the try block of handle_call_tool
call_tool(wd, now, request_id, tool_name, arguments) ==
    IF IsLiteral(tool_name, ToolNames[1])
    THEN IF ~HasAttr(arguments, "get")
         THEN Raise(AttributeError(arguments, "get"), wd)
         ELSE get_weather(wd, now, request_id, Get(arguments, "location", PyStr(<<>>)))
    ELSE IF IsLiteral(tool_name, ToolNames[2])
    THEN IF ~HasAttr(arguments, "get")
         THEN Raise(AttributeError(arguments, "get"), wd)
         ELSE get_weather_forecast(wd, now, request_id,
                                   Get(arguments, "location", PyStr(<<>>)),
                                   Get(arguments, "days", PyInt(3)))
    ELSE Return(unknown_tool(request_id, tool_name), wd)

handle_call_tool(wd, now, request_id, params) ==
    IF ~HasAttr(params, "get") THEN Raise(AttributeError(params, "get"), wd)
    ELSE LET tool_name == Get(params, "name", None)
             arguments == Get(params, "arguments", EmptyDict)
             called == call_tool(wd, now, request_id, tool_name, arguments)
         IN IF called.kind = "raise"
            THEN Return(tool_execution_failed(request_id, called.value), called.wd)
            ELSE called

PromptNames == <<"weather_report", "weather_comparison">>

handle_list_prompts(wd, request_id) ==
    Return(result_response(request_id,
              [prompts |->
                 << [name |-> PromptNames[1],
                     description |-> "Generate a weather report for a location",
                     arguments |-> <<[name |-> "location", required |-> TRUE]>>],
                    [name |-> PromptNames[2],
                     description |-> "Compare weather between two locations",
                     arguments |-> <<[name |-> "location1", required |-> TRUE],
                                     [name |-> "location2", required |-> TRUE]>>] >>]),
           wd)

\* a prompt answer: its description and its single user message
prompt_response(request_id, description, prompt_text) ==
    result_response(request_id,
        [description |-> description,
         messages |-> <<[role |-> "user",
                         content |-> [type |-> "text", text |-> prompt_text]]>>])

\* variant: an unknown prompt is reported as a method that was not found
unknown_prompt_not_found(request_id, prompt_name) ==
    error_response(request_id, -32601, FString("Unknown prompt: ", prompt_name))

\* the else branch of handle_get_prompt
unknown_prompt(request_id, prompt_name) ==
    error_response(request_id, -32602, FString("Unknown prompt: ", prompt_name))

\* the weather_report branch of handle_get_prompt; the text is the sequence
\* of the template's literal pieces and substituted values
weather_report(wd, now, request_id, arguments) ==
    IF ~HasAttr(arguments, "get") THEN Raise(AttributeError(arguments, "get"), wd)
    ELSE LET location == Get(arguments, "location", PyStr(<<>>))
             looked == get_weather_data(wd, now, location)
         IN IF looked.kind = "raise" THEN looked
            ELSE Return(prompt_response(request_id,
                          FString("Weather report for ", location),
                          << [lit |-> "Please provide a detailed weather report for "],
                             [sub |-> location],
                             [lit |-> " based on the following data:"],
                             json_dumps(looked.value),
                             [lit |-> "Include:"] >>),
                        looked.wd)

\* variant: the second record is looked up for the first location
weather_comparison_same_lookup(wd, now, request_id, arguments) ==
    IF ~HasAttr(arguments, "get") THEN Raise(AttributeError(arguments, "get"), wd)
    ELSE LET location1 == Get(arguments, "location1", PyStr(<<>>))
             location2 == Get(arguments, "location2", PyStr(<<>>))
             weather1 == get_weather_data(wd, now, location1)
         IN IF weather1.kind = "raise" THEN weather1
            ELSE LET weather2 == get_weather_data(weather1.wd, now, location1)
                 IN IF weather2.kind = "raise" THEN weather2
                    ELSE Return(prompt_response(request_id,
                                  [text |-> "Weather comparison between ",
                                   arg |-> location1, and |-> location2],
                                  << [lit |-> "Compare the weather conditions between "],
                                     [sub |-> location1], [lit |-> " and "],
                                     [sub |-> location2], [lit |-> ":"],
                                     [sub |-> location1], [lit |-> " Weather:"],
                                     json_dumps(weather1.value),
                                     [sub |-> location2], [lit |-> " Weather:"],
                                     json_dumps(weather2.value),
                                     [lit |-> "Please provide a comparison highlighting:"] >>),
                                weather2.wd)

\* the weather_comparison branch of handle_get_prompt
weather_comparison(wd, now, request_id, arguments) ==
    IF ~HasAttr(arguments, "get") THEN Raise(AttributeError(arguments, "get"), wd)
    ELSE LET location1 == Get(arguments, "location1", PyStr(<<>>))
             location2 == Get(arguments, "location2", PyStr(<<>>))
             weather1 == get_weather_data(wd, now, location1)
         IN IF weather1.kind = "raise" THEN weather1
            ELSE LET weather2 == get_weather_data(weather1.wd, now, location2)
                 IN IF weather2.kind = "raise" THEN weather2
                    ELSE Return(prompt_response(request_id,
                                  [text |-> "Weather comparison between ",
                                   arg |-> location1, and |-> location2],
                                  << [lit |-> "Compare the weather conditions between "],
                                     [sub |-> location1], [lit |-> " and "],
                                     [sub |-> location2], [lit |-> ":"],
                                     [sub |-> location1], [lit |-> " Weather:"],
                                     json_dumps(weather1.value),
                                     [sub |-> location2], [lit |-> " Weather:"],
                                     json_dumps(weather2.value),
                                     [lit |-> "Please provide a comparison highlighting:"] >>),
                                weather2.wd)

handle_get_prompt(wd, now, request_id, params) ==
    IF ~HasAttr(params, "get") THEN Raise(AttributeError(params, "get"), wd)
    ELSE LET prompt_name == Get(params, "name", None)
             arguments == Get(params, "arguments", EmptyDict)
         IN IF IsLiteral(prompt_name, PromptNames[1])
            THEN weather_report(wd, now, request_id, arguments)
            ELSE IF IsLiteral(prompt_name, PromptNames[2])
            THEN weather_comparison(wd, now, request_id, arguments)
            ELSE Return(unknown_prompt(request_id, prompt_name), wd)

---------------------------------------------------------------------------
(* SimpleMCPServer.handle_request *)

\* the method names the if/elif chain routes, in its order
RoutedMethods ==
    <<"initialize", "resources/list", "resources/read", "tools/list",
      "tools/call", "prompts/list", "prompts/get">>

\* the else branch of handle_request
method_not_found(request_id, method) ==
    error_response(request_id, -32601, FString("Method not found: ", method))

\* variant: the except branch answers without the id of the request
internal_error_null_id(req, e) ==
    error_response(None, -32603, e)

\* the except branch of handle_request
internal_error(req, e) ==
    error_response(Get(req, "id", None), -32603, e)

\* the if/elif chain of the try block
route(wd, now, method, params, request_id) ==
    CASE IsLiteral(method, RoutedMethods[1]) -> handle_initialize(wd, request_id, params)
      [] IsLiteral(method, RoutedMethods[2]) -> handle_list_resources(wd, request_id)
      [] IsLiteral(method, RoutedMethods[3]) -> handle_read_resource(wd, request_id, params)
      [] IsLiteral(method, RoutedMethods[4]) -> handle_list_tools(wd, request_id)
      [] IsLiteral(method, RoutedMethods[5]) -> handle_call_tool(wd, now, request_id, params)
      [] IsLiteral(method, RoutedMethods[6]) -> handle_list_prompts(wd, request_id)
      [] IsLiteral(method, RoutedMethods[7]) -> handle_get_prompt(wd, now, request_id, params)
      [] OTHER -> Return(method_not_found(request_id, method), wd)

\* a request that is no dict has no get: the try block raises, and so does
\* the except branch, which calls request.get again
handle_request(wd, now, req) ==
    IF ~HasAttr(req, "get") THEN Raise(AttributeError(req, "get"), wd)
    ELSE LET method == Get(req, "method", None)
             params == Get(req, "params", EmptyDict)
             request_id == Get(req, "id", None)
             routed == route(wd, now, method, params, request_id)
         IN IF routed.kind = "raise"
            THEN Return(internal_error(req, routed.value), routed.wd)
            ELSE routed

---------------------------------------------------------------------------
(* The inputs tried *)

\* request ids: none, or an integer
Ids == {Absent} \cup {PyInt(i) : i \in 1..MaxId}

\* readings of datetime.now()
Clock == 1..MaxClock

\* values that are no dict
NonDicts == {None, PyInt(5), PyBool(TRUE), PyFloat("2.5"), PyList(<<>>), PyStr(<<"x">>)}

\* values that are no string
NonStrs == {None, PyInt(5), PyBool(TRUE), PyFloat("2.5"), PyList(<<>>), EmptyDict}

\* values range() refuses
NonIndexes == {None, PyFloat("2.5"), PyList(<<>>), EmptyDict, PyStr(<<"3">>)}

LocationAlphabet == {"o", "k", "n", "N", " ", ",", "_", "x"}

RECURSIVE StringsUpTo(_)
StringsUpTo(n) ==
    IF n = 0 THEN {<<>>}
    ELSE LET shorter == StringsUpTo(n - 1)
         IN shorter \cup {Append(s, c) : s \in shorter, c \in LocationAlphabet}

\* every way of writing s in upper and lower case letters
RECURSIVE CaseVariants(_)
CaseVariants(s) ==
    IF s = <<>> THEN {<<>>}
    ELSE {<<c>> \o rest : c \in {LowerChar(Head(s)), UpperChar(Head(s))},
                          rest \in CaseVariants(Tail(s))}

NewYorkName == <<"N","e","w"," ","Y","o","r","k">>

LondonName == <<"L","o","n","d","o","n">>

TokyoName == <<"T","o","k","y","o">>

Paris == <<"P","a","r","i","s">>

NamedLocations ==
    { NewYorkName, LondonName, TokyoName, Paris, <<>>,
      <<"U","n","k","n","o","w","n"," ","C","i","t","y">>,
      <<"S","y","d","n","e","y">>,
      TokyoName \o <<" ">> \o LondonName,
      LondonName \o <<",">> \o NewYorkName,
      NewYorkName \o <<","," ","N","Y">>,
      <<"N","e","w","Y","o","r","k">>,
      <<"y","o","r","k">>, <<"Y","o","r","k","s","h","i","r","e">>,
      <<"k","y","o","t","o">>, <<"L","o","n","d","o","n","d","e","r","r","y">> }

SeededNames == {NewYorkName, LondonName, TokyoName}

Locations ==
    NamedLocations
      \cup StringsUpTo(MaxLocLen)
      \cup UNION {CaseVariants(s) : s \in SeededNames}

\* the locations tried where a second input multiplies the cases
FewLocations == {NewYorkName, LondonName, TokyoName, Paris, <<>>, <<"o","n">>}

Atlantis == <<"a","t","l","a","n","t","i","s">>

\* key with the scheme put in after its first i characters
Spliced(key, i) == SubSeq(key, 1, i) \o WeatherScheme \o SubSeq(key, i + 1, Len(key))

Uris ==
    LET cities == {new_york, london, tokyo, Atlantis, TokyoName, <<>>,
                   tokyo \o <<"/">>, <<" ">> \o tokyo, tokyo \o london}
    IN  {WeatherScheme \o c : c \in cities}
          \cup {WeatherScheme \o WeatherScheme \o c : c \in cities}
          \cup {WeatherScheme \o Spliced(tokyo, i) : i \in 0..Len(tokyo)}
          \cup cities
          \cup {<<"h","t","t","p",":","/","/">> \o tokyo,
                <<"W","e","a","t","h","e","r",":","/","/">> \o tokyo,
                <<"w","e","a","t","h","e","r",":","/">> \o tokyo,
                <<"x">> \o WeatherScheme \o tokyo}

\* forecast day counts: integers, booleans, and values range() refuses
DayCounts ==
    {Absent} \cup {PyInt(n) : n \in (-2)..MaxDays} \cup {PyBool(TRUE), PyBool(FALSE)}
      \cup NonIndexes

\* params of the methods that do not read them
AnyParams == {Absent, EmptyDict, None, PyList(<<>>)}

Request(method, params, id) ==
    MkDict([jsonrpc |-> PyStr("2.0"), method |-> method, params |-> params, id |-> id])

InitializeRequests ==
    {Request(PyStr(RoutedMethods[1]), p, id) :
        p \in AnyParams \cup {MkDict([protocolVersion |-> PyStr("1999-01-01")])},
        id \in Ids}

ListRequests ==
    {Request(PyStr(RoutedMethods[m]), p, id) : m \in {2, 4, 6}, p \in AnyParams, id \in Ids}

ReadParams ==
    {MkDict([uri |-> u]) : u \in {Absent} \cup {PyStr(x) : x \in Uris} \cup NonStrs}
      \cup NonDicts \cup {Absent}

ReadRequests == {Request(PyStr(RoutedMethods[3]), p, id) : p \in ReadParams, id \in Ids}

\* arguments of a tool or prompt that is never run
AnyArguments ==
    {Absent, EmptyDict, None, PyList(<<>>), MkDict([location |-> PyStr(TokyoName)])}

\* names that are neither a tool nor a prompt, Absent for no name
OtherNames ==
    {Absent, None, PyInt(1), PyList(<<>>), PyStr(""), PyStr("get_forecast"),
     PyStr("GET_WEATHER"), PyStr("weather"), PyStr(RoutedMethods[5])}

WeatherArguments ==
    {MkDict([location |-> l]) : l \in {Absent} \cup {PyStr(x) : x \in Locations} \cup NonStrs}
      \cup NonDicts \cup {Absent}

ForecastArguments ==
    {MkDict([location |-> l, days |-> d]) :
        l \in {Absent, None, PyInt(5)} \cup {PyStr(x) : x \in FewLocations},
        d \in DayCounts}
      \cup NonDicts \cup {Absent}

CallParams ==
    {MkDict([name |-> PyStr(ToolNames[1]), arguments |-> a]) : a \in WeatherArguments}
      \cup {MkDict([name |-> PyStr(ToolNames[2]), arguments |-> a]) : a \in ForecastArguments}
      \cup {MkDict([name |-> n, arguments |-> a]) :
               n \in OtherNames \cup {PyStr(PromptNames[1])}, a \in AnyArguments}
      \cup NonDicts \cup {Absent}

CallRequests == {Request(PyStr(RoutedMethods[5]), p, id) : p \in CallParams, id \in Ids}

ReportArguments ==
    {MkDict([location |-> l]) :
        l \in {Absent} \cup {PyStr(x) : x \in NamedLocations} \cup NonStrs}
      \cup NonDicts \cup {Absent}

ComparisonArguments ==
    {MkDict([location1 |-> a, location2 |-> b]) :
        a \in {Absent, None} \cup {PyStr(x) : x \in FewLocations},
        b \in {Absent, PyInt(5)} \cup {PyStr(x) : x \in FewLocations}}
      \cup NonDicts \cup {Absent}

PromptParams ==
    {MkDict([name |-> PyStr(PromptNames[1]), arguments |-> a]) : a \in ReportArguments}
      \cup {MkDict([name |-> PyStr(PromptNames[2]), arguments |-> a]) : a \in ComparisonArguments}
      \cup {MkDict([name |-> n, arguments |-> a]) :
               n \in OtherNames \cup {PyStr(ToolNames[1])}, a \in AnyArguments}
      \cup NonDicts \cup {Absent}

PromptRequests == {Request(PyStr(RoutedMethods[7]), p, id) : p \in PromptParams, id \in Ids}

\* methods the chain does not route, Absent for a request without method
OtherMethods ==
    {Absent, None, PyInt(7), PyList(<<>>), PyStr(""), PyStr("ping"), PyStr("Initialize"),
     PyStr("tools"), PyStr("tools/call/"), PyStr("resources/subscribe"),
     PyStr(ToolNames[1]), PyStr(PromptNames[1])}

OtherRequests ==
    {Request(m, p, id) :
        m \in OtherMethods,
        p \in AnyParams \cup {MkDict([name |-> PyStr(ToolNames[1]),
                                       arguments |-> MkDict([location |-> PyStr(TokyoName)])]),
                               MkDict([uri |-> PyStr(WeatherScheme \o tokyo)])},
        id \in Ids}

---------------------------------------------------------------------------
(* The server and its caller: the caller builds a request, hands it to     *)
(* handle_request, and prints what comes back, as main() does for each of  *)
(* its examples                                                            *)

\* no request built, no response yet
Unset == [t |-> "unset"]

Init ==
    /\ weather_data = InitialWeatherData
    /\ pc = "idle"
    /\ request = Unset
    /\ response = Unset
    /\ previous = "none"

\* how a served request ended: propagated, an error code, a forecast with
\* at least one day, or another result
Outcome(req, resp) ==
    CASE "propagated" \in DOMAIN resp -> "propagated"
      [] "error" \in DOMAIN resp -> ToString(resp.error.code)
      [] /\ "content" \in DOMAIN resp.result
         /\ "forecast" \in DOMAIN resp.result.content[1].text.json
         /\ Len(resp.result.content[1].text.json.forecast) > 0 -> "forecast"
      [] OTHER -> "result"

Build(req) ==
    /\ pc = "idle"
    /\ pc' = "built"
    /\ request' = req
    /\ UNCHANGED <<weather_data, response, previous>>

BuildInitialize == \E req \in InitializeRequests : Build(req)

BuildList == \E req \in ListRequests : Build(req)

BuildReadResource == \E req \in ReadRequests : Build(req)

BuildCallTool == \E req \in CallRequests : Build(req)

BuildGetPrompt == \E req \in PromptRequests : Build(req)

BuildOther == \E req \in OtherRequests : Build(req)

BuildNonMapping == \E req \in NonDicts : Build(req)

\* response = server.handle_request(request); an exception that leaves
\* handle_request is recorded in place of the response
HandleRequest ==
    /\ pc = "built"
    /\ \E now \in Clock :
          LET out == handle_request(weather_data, now, request)
          IN /\ response' = IF out.kind = "raise"
                            THEN [propagated |-> out.value]
                            ELSE out.value
             /\ weather_data' = out.wd
    /\ pc' = "responded"
    /\ UNCHANGED <<request, previous>>

PrintResponse ==
    /\ pc = "responded"
    /\ pc' = "idle"
    /\ request' = Unset
    /\ response' = Unset
    /\ previous' = Outcome(request, response)
    /\ UNCHANGED weather_data

Next ==
    \/ BuildInitialize
    \/ BuildList
    \/ BuildReadResource
    \/ BuildCallTool
    \/ BuildGetPrompt
    \/ BuildOther
    \/ BuildNonMapping
    \/ HandleRequest
    \/ PrintResponse

Spec == Init /\ [][Next]_vars

---------------------------------------------------------------------------
(* What the claims speak of *)

\* handle_request has answered the request in hand
Responded == pc = "responded"

\* ... and that request is a mapping
Answered == Responded /\ request.t = "dict"

MethodOf == Get(request, "method", None)

ParamsOf == Get(request, "params", EmptyDict)

IdOf == Get(request, "id", None)

\* the request is a mapping whose method is name
MethodIs(name) == Answered /\ MethodOf.t = "str" /\ MethodOf.v = name

\* ... and whose params are a mapping (or left out)
CallOf(name) == MethodIs(name) /\ ParamsOf.t = "dict"

NameOf == Get(ParamsOf, "name", None)

ArgumentsOf == Get(ParamsOf, "arguments", EmptyDict)

\* a tools/call or prompts/get of that name, its arguments a mapping (or left out)
Invoked(method, name) ==
    /\ CallOf(method)
    /\ NameOf.t = "str" /\ NameOf.v = name
    /\ ArgumentsOf.t = "dict"

IsResult == "result" \in DOMAIN response

IsError(code) == "error" \in DOMAIN response /\ response.error.code = code

\* the text of the single content item of a tool result
ToolText == response.result.content[1].text

---------------------------------------------------------------------------
\* C1: handle_request answers -32601 exactly when the method of the request
\* is not one of the seven routed names; a request without method is
\* answered -32601, and no routed method is, whatever its params.
SevenMethods ==
    {"initialize", "resources/list", "resources/read", "tools/list",
     "tools/call", "prompts/list", "prompts/get"}

C1_MethodNotFoundIffUnrouted ==
    Answered =>
        /\ IsError(-32601) <=> ~(MethodOf.t = "str" /\ MethodOf.v \in SevenMethods)
        /\ "method" \notin DOMAIN request.v => IsError(-32601)

C1_Witness ==
    /\ Answered
    /\ "method" \notin DOMAIN request.v
    /\ IsError(-32601)

\* C2: a request that is a mapping always gets a response, never an
\* exception; when the handler raises (params no mapping, uri or location no
\* string, days no integer) the response is the error -32603 carrying the
\* exception message, after 'Tool execution failed: ' when a known tool raised.
C2_Raised(method, params) ==
    IF IsLiteral(method, "tools/call") /\ params.t = "dict"
    THEN call_tool(weather_data, 1, IdOf, Get(params, "name", None),
                   Get(params, "arguments", EmptyDict))
    ELSE route(weather_data, 1, method, params, IdOf)

C2_Message(method, params, e) ==
    IF IsLiteral(method, "tools/call") /\ params.t = "dict"
    THEN FString("Tool execution failed: ", e)
    ELSE e

C2_Fails(message) == IsError(-32603) /\ response.error.message = message

C2_HandlerExceptionIsInternalError ==
    Answered =>
        /\ "jsonrpc" \in DOMAIN response
        /\ "propagated" \notin DOMAIN response
        /\ LET raised == C2_Raised(MethodOf, ParamsOf)
           IN raised.kind = "raise" =>
                  response = error_response(IdOf, -32603,
                                 C2_Message(MethodOf, ParamsOf, raised.value))
        /\ \A m \in {"resources/read", "tools/call", "prompts/get"} :
              (MethodIs(m) /\ ParamsOf.t # "dict") =>
                  C2_Fails(AttributeError(ParamsOf, "get"))
        /\ (CallOf("resources/read") /\ Get(ParamsOf, "uri", PyStr(<<>>)).t # "str") =>
              C2_Fails(AttributeError(Get(ParamsOf, "uri", PyStr(<<>>)), "startswith"))
        /\ \A tool \in {"get_weather", "get_weather_forecast"} :
              (/\ Invoked("tools/call", tool)
               /\ Get(ArgumentsOf, "location", PyStr(<<>>)).t # "str") =>
                  C2_Fails(FString("Tool execution failed: ",
                      AttributeError(Get(ArgumentsOf, "location", PyStr(<<>>)), "lower")))
        /\ (/\ Invoked("tools/call", "get_weather_forecast")
            /\ Get(ArgumentsOf, "location", PyStr(<<>>)).t = "str"
            /\ Get(ArgumentsOf, "days", PyInt(3)).t \notin {"int", "bool"}) =>
              C2_Fails(FString("Tool execution failed: ",
                  TypeError(Get(ArgumentsOf, "days", PyInt(3)))))
        /\ (/\ Invoked("prompts/get", "weather_report")
            /\ Get(ArgumentsOf, "location", PyStr(<<>>)).t # "str") =>
              C2_Fails(AttributeError(Get(ArgumentsOf, "location", PyStr(<<>>)), "lower"))

C2_Witness ==
    /\ Invoked("tools/call", "get_weather_forecast")
    /\ Get(ArgumentsOf, "location", PyStr(<<>>)) = PyStr(LondonName)
    /\ Get(ArgumentsOf, "days", PyInt(3)) = PyStr(<<"3">>)
    /\ C2_Fails(FString("Tool execution failed: ", TypeError(PyStr(<<"3">>))))

\* C3: resources/read answers -32602 when the uri (the empty string when
\* left out) does not start with weather:// or when the city it names, the
\* uri without the scheme text, is no key of the seed table (weather://atlantis);
\* otherwise the result holds one text content, the JSON of the seed record
\* of that city (weather://tokyo: location 'Tokyo, Japan').
C3_Seed(city) ==
    CASE city = new_york -> NewYorkRecord
      [] city = london -> LondonRecord
      [] city = tokyo -> TokyoRecord

C3_ReadAnswer(uri) ==
    LET city == Replace(uri, WeatherScheme, <<>>)
    IN IF ~StartsWith(uri, WeatherScheme) \/ city \notin {new_york, london, tokyo}
       THEN IsError(-32602)
       ELSE /\ IsResult
            /\ response.result.contents =
                  <<[type |-> "text", text |-> json_dumps(C3_Seed(city))]>>

C4_UnknownNameIsInvalidParams ==
    /\ (/\ CallOf("tools/call")
        /\ ~(NameOf.t = "str" /\ NameOf.v \in {"get_weather", "get_weather_forecast"}))
          => (IsError(-32602) /\ ~IsError(-32601))
    /\ (/\ CallOf("prompts/get")
        /\ ~(NameOf.t = "str" /\ NameOf.v \in {"weather_report", "weather_comparison"}))
          => (IsError(-32602) /\ ~IsError(-32601))

C4_Witness ==
    /\ CallOf("tools/call")
    /\ "name" \notin DOMAIN ParamsOf.v
    /\ Get(ParamsOf, "arguments", EmptyDict) = None
    /\ IsError(-32602)

\* C5: every uri resources/list returns is weather:// followed by a key of
\* the seed table, and resources/read of that uri gives a result, never an
\* error, whose text is the seed record stored under that key.
C5_Read(uri) ==
    handle_request(weather_data, 1,
        Request(PyStr("resources/read"), MkDict([uri |-> PyStr(uri)]), IdOf)).value

C5_ListReadRoundTrip ==
    MethodIs("resources/list") =>
        /\ IsResult
        /\ \A i \in DOMAIN response.result.resources :
              LET uri == response.result.resources[i].uri
                  read == C5_Read(uri)
              IN /\ \E key \in {new_york, london, tokyo} :
                       /\ uri = WeatherScheme \o key
                       /\ "result" \in DOMAIN read
                       /\ read.result.contents[1].text = json_dumps(C3_Seed(key))
                       /\ key = InitialWeatherData[i].key
                 /\ "error" \notin DOMAIN read

C5_Witness ==
    /\ MethodIs("resources/list")
    /\ IsResult
    /\ Len(response.result.resources) = 3
    /\ "result" \in DOMAIN C5_Read(response.result.resources[3].uri)

\* C6: after any sequence of requests resources/list returns exactly the 3
\* entries weather://new_york, weather://london, weather://tokyo in table
\* order, tools/list exactly the tools get_weather and get_weather_forecast,
\* prompts/list exactly the prompts weather_report and weather_comparison:
\* in every state the catalogs are these, and every list response holds them.
C6_Uris == <<WeatherScheme \o new_york, WeatherScheme \o london, WeatherScheme \o tokyo>>

C6_UrisOf(resources) == [i \in DOMAIN resources |-> resources[i].uri]

C6_NamesOf(entries) == [i \in DOMAIN entries |-> entries[i].name]

C6_CatalogsNeverChange ==
    /\ C6_UrisOf(handle_list_resources(weather_data, None).value.result.resources) = C6_Uris
    /\ C6_NamesOf(handle_list_tools(weather_data, None).value.result.tools)
          = <<"get_weather", "get_weather_forecast">>
    /\ C6_NamesOf(handle_list_prompts(weather_data, None).value.result.prompts)
          = <<"weather_report", "weather_comparison">>
    /\ MethodIs("resources/list") =>
          /\ IsResult
          /\ Len(response.result.resources) = 3
          /\ C6_UrisOf(response.result.resources) = C6_Uris
    /\ MethodIs("tools/list") =>
          /\ IsResult
          /\ Len(response.result.tools) = 2
          /\ C6_NamesOf(response.result.tools) = <<"get_weather", "get_weather_forecast">>
    /\ MethodIs("prompts/list") =>
          /\ IsResult
          /\ Len(response.result.prompts) = 2
          /\ C6_NamesOf(response.result.prompts) = <<"weather_report", "weather_comparison">>

C6_Witness ==
    /\ MethodIs("resources/list")
    /\ previous = "forecast"
    /\ IsResult
    /\ Len(response.result.resources) = 3

\* C7: get_weather with the plain name of a seeded city, 'New York',
\* 'London' or 'Tokyo' in any letter case, returns exactly the seed record
\* of that city; for 'New York' temperature 72 and conditions 'Partly cloudy'.
C7_LocationOf == Get(ArgumentsOf, "location", PyStr(<<>>))

C7_Cities ==
    { <<NewYorkName, NewYorkRecord>>, <<LondonName, LondonRecord>>,
      <<TokyoName, TokyoRecord>> }

C7_SeededNameGivesSeedRecord ==
    (Invoked("tools/call", "get_weather") /\ C7_LocationOf.t = "str") =>
        /\ \A city \in C7_Cities :
              Lower(C7_LocationOf.v) = Lower(city[1]) =>
                  (IsResult /\ ToolText = json_dumps(city[2]))
        /\ C7_LocationOf.v = NewYorkName =>
              /\ IsResult
              /\ ToolText.json.temperature = 72
              /\ ToolText.json.conditions = "Partly cloudy"

C7_Witness ==
    /\ Invoked("tools/call", "get_weather")
    /\ C7_LocationOf = PyStr(<<"n","E","W"," ","y","o","R","k">>)
    /\ IsResult
    /\ ToolText.json.temperature = 72
    /\ ToolText.json.conditions = "Partly cloudy"

\* C8: when the normalized location neither contains a seeded key nor is
\* contained in one, the lookup returns, as a successful result, a record
\* with temperature 20, humidity 70, conditions 'Unknown', wind speed 10 and
\* as location the input string as it was given.
C8_NoKeyMatches(location) ==
    \A key \in {new_york, london, tokyo} :
        /\ ~Contains(location_key_of(location), key)
        /\ ~Contains(key, location_key_of(location))

C8_FallbackRecord ==
    (/\ Invoked("tools/call", "get_weather")
     /\ C7_LocationOf.t = "str"
     /\ C8_NoKeyMatches(C7_LocationOf.v)) =>
        /\ IsResult
        /\ "error" \notin DOMAIN response
        /\ \E now \in Clock :
              ToolText = json_dumps(
                  [location |-> C7_LocationOf.v, temperature |-> 20, humidity |-> 70,
                   conditions |-> "Unknown", wind_speed |-> 10,
                   last_updated |-> [t |-> "isoformat", v |-> now]])

C8_Witness ==
    /\ Invoked("tools/call", "get_weather")
    /\ C7_LocationOf = PyStr(<<"U","n","k","n","o","w","n"," ","C","i","t","y">>)
    /\ IsResult
    /\ ToolText.json.temperature = 20
    /\ ToolText.json.location = <<"U","n","k","n","o","w","n"," ","C","i","t","y">>

\* C9: the lookup matches the normalized location against the seeded keys
\* by containment in either direction, and returns the record of the first
\* matching key in the order new_york, london, tokyo; a location naming
\* Tokyo and London resolves to London.
C9_Matches(key, location) ==
    \/ Contains(location_key_of(location), key)
    \/ Contains(key, location_key_of(location))

C9_FirstMatchInTableOrder ==
    (Invoked("tools/call", "get_weather") /\ C7_LocationOf.t = "str") =>
        /\ IsResult
        /\ IF C9_Matches(new_york, C7_LocationOf.v)
              THEN ToolText = json_dumps(NewYorkRecord)
           ELSE IF C9_Matches(london, C7_LocationOf.v)
              THEN ToolText = json_dumps(LondonRecord)
           ELSE IF C9_Matches(tokyo, C7_LocationOf.v)
              THEN ToolText = json_dumps(TokyoRecord)
           ELSE ToolText.json.conditions = "Unknown"
        /\ C7_LocationOf.v = TokyoName \o <<" ">> \o LondonName =>
              ToolText = json_dumps(LondonRecord)

C9_Witness ==
    /\ Invoked("tools/call", "get_weather")
    /\ C7_LocationOf = PyStr(TokyoName \o <<" ">> \o LondonName)
    /\ C9_Matches(tokyo, C7_LocationOf.v)
    /\ C9_Matches(london, C7_LocationOf.v)
    /\ ToolText = json_dumps(LondonRecord)

\* C10 (as claimed): the lookup normalizes the location by lowercasing it and
\* stripping its spaces and commas, so the key used for matching contains no
\* space, no comma, and no character that was not (in either case) in the input.
RECURSIVE C10_Stripped(_)
C10_Stripped(s) ==
    IF s = <<>> THEN <<>>
    ELSE (IF Head(s) \in {" ", ","} THEN <<>> ELSE <<LowerChar(Head(s))>>)
            \o C10_Stripped(Tail(s))

C10_KeyStripsSpacesAndCommas ==
    (Invoked("tools/call", "get_weather") /\ C7_LocationOf.t = "str") =>
        LET key == location_key_of(C7_LocationOf.v)
        IN /\ key = C10_Stripped(C7_LocationOf.v)
           /\ \A i \in DOMAIN key :
                 /\ key[i] \notin {" ", ","}
                 /\ \E j \in DOMAIN C7_LocationOf.v : key[i] = LowerChar(C7_LocationOf.v[j])

\* C10 (amended): the lookup normalizes the location by lowercasing it,
\* replacing each space by an underscore and stripping its commas, so the key
\* used for matching contains no space, no comma and no uppercase letter, and
\* each of its characters is the lowercase of an input character or an
\* underscore standing for an input space.
RECURSIVE C10_Underscored(_)
C10_Underscored(s) ==
    IF s = <<>> THEN <<>>
    ELSE (CASE Head(s) = "," -> <<>>
            [] Head(s) = " " -> <<"_">>
            [] OTHER -> <<LowerChar(Head(s))>>)
            \o C10_Underscored(Tail(s))

C10_KeyReplacesSpacesStripsCommas ==
    (Invoked("tools/call", "get_weather") /\ C7_LocationOf.t = "str") =>
        LET key == location_key_of(C7_LocationOf.v)
        IN /\ key = C10_Underscored(C7_LocationOf.v)
           /\ \A i \in DOMAIN key :
                 /\ key[i] \notin {" ", ","}
                 /\ key[i] = LowerChar(key[i])
                 /\ \E j \in DOMAIN C7_LocationOf.v :
                       \/ key[i] = LowerChar(C7_LocationOf.v[j])
                       \/ key[i] = "_" /\ C7_LocationOf.v[j] = " "

C10_Witness ==
    /\ Invoked("tools/call", "get_weather")
    /\ C7_LocationOf = PyStr(NewYorkName \o <<","," ","N","Y">>)
    /\ location_key_of(C7_LocationOf.v) = new_york \o <<"_","n","y">>
    /\ ToolText = json_dumps(NewYorkRecord)

---------------------------------------------------------------------------
\* the weather lookup of a server as constructed, for a location string
Lookup(location, now) == get_weather_data(InitialWeatherData, now, PyStr(location)).value

\* the forecast tool was called with a location string
Forecasting ==
    /\ Invoked("tools/call", "get_weather_forecast")
    /\ C7_LocationOf.t = "str"

DaysOf == Get(ArgumentsOf, "days", PyInt(3))

\* C11: get_weather_forecast with a location and an integer day count
\* n >= 0 returns exactly n entries; entry i (from 0) has the temperature
\* base + 2*i - 2, base being the lookup of the location, and the other
\* weather fields of the base record; London with n = 3 gives 16, 18, 20.
C11_ForecastEntries ==
    (Forecasting /\ "days" \in DOMAIN ArgumentsOf.v /\ DaysOf.t = "int" /\ DaysOf.v >= 0) =>
        /\ IsResult
        /\ Len(ToolText.json.forecast) = DaysOf.v
        /\ \E now \in Clock :
              LET base == Lookup(C7_LocationOf.v, now)
              IN \A i \in 0..(DaysOf.v - 1) :
                    /\ ToolText.json.forecast[i + 1].temperature
                          = base.temperature + (2 * i) - 2
                    /\ \A k \in DOMAIN base \ {"temperature"} :
                          ToolText.json.forecast[i + 1][k] = base[k]
        /\ (C7_LocationOf.v = LondonName /\ DaysOf.v = 3) =>
              [i \in 1..3 |-> ToolText.json.forecast[i].temperature] = <<16, 18, 20>>

C11_Witness ==
    /\ Forecasting
    /\ C7_LocationOf.v = LondonName
    /\ DaysOf = PyInt(3)
    /\ IsResult
    /\ [i \in 1..3 |-> ToolText.json.forecast[i].temperature] = <<16, 18, 20>>

\* C12: prompts/get builds its text from the lookup of its arguments:
\* weather_report for L has the description 'Weather report for L' and one
\* user message that embeds the JSON of lookup(L), the generic record for
\* 'Paris'; weather_comparison names location1 then location2 in its
\* description and embeds lookup(location1), then lookup(location2).
C12_Embedded(text) ==
    SelectSeq(text, LAMBDA part : "json" \in DOMAIN part)

C12_OneUserMessage ==
    /\ IsResult
    /\ Len(response.result.messages) = 1
    /\ response.result.messages[1].role = "user"
    /\ response.result.messages[1].content.type = "text"

C12_PromptText == response.result.messages[1].content.text

C12_PromptFromLookup ==
    /\ (/\ Invoked("prompts/get", "weather_report")
        /\ C7_LocationOf.t = "str") =>
          /\ C12_OneUserMessage
          /\ response.result.description = FString("Weather report for ", C7_LocationOf)
          /\ \E now \in Clock :
                C12_Embedded(C12_PromptText) = <<json_dumps(Lookup(C7_LocationOf.v, now))>>
          /\ C7_LocationOf.v = Paris =>
                /\ C12_Embedded(C12_PromptText)[1].json.conditions = "Unknown"
                /\ C12_Embedded(C12_PromptText)[1].json.temperature = 20
                /\ C12_Embedded(C12_PromptText)[1].json.location = Paris
    /\ (/\ Invoked("prompts/get", "weather_comparison")
        /\ Get(ArgumentsOf, "location1", PyStr(<<>>)).t = "str"
        /\ Get(ArgumentsOf, "location2", PyStr(<<>>)).t = "str") =>
          /\ C12_OneUserMessage
          /\ response.result.description.arg = Get(ArgumentsOf, "location1", PyStr(<<>>))
          /\ response.result.description.and = Get(ArgumentsOf, "location2", PyStr(<<>>))
          /\ \E now \in Clock :
                C12_Embedded(C12_PromptText) =
                    << json_dumps(Lookup(Get(ArgumentsOf, "location1", PyStr(<<>>)).v, now)),
                       json_dumps(Lookup(Get(ArgumentsOf, "location2", PyStr(<<>>)).v, now)) >>

C12_Witness ==
    /\ Invoked("prompts/get", "weather_comparison")
    /\ Get(ArgumentsOf, "location1", PyStr(<<>>)) = PyStr(Paris)
    /\ Get(ArgumentsOf, "location2", PyStr(<<>>)) = PyStr(LondonName)
    /\ IsResult
    /\ C12_Embedded(C12_PromptText)[1].json.conditions = "Unknown"
    /\ C12_Embedded(C12_PromptText)[2] = json_dumps(LondonRecord)

\* C13: whatever requests were handled, forecast calls and failing requests
\* included, the seed table holds its three initial records with their
\* initial field values.
C13_SeedTableUnchanged ==
    /\ weather_data = InitialWeatherData
    /\ Len(weather_data) = 3
    /\ weather_data[1].data = NewYorkRecord
    /\ weather_data[2].data = LondonRecord
    /\ weather_data[3].data = TokyoRecord

C13_Witness ==
    /\ Forecasting
    /\ C7_LocationOf.v = LondonName
    /\ DaysOf = PyInt(5)
    /\ previous = "-32603"
    /\ IsResult
    /\ ToolText.json.forecast[5].temperature = 24
    /\ "date" \in DOMAIN ToolText.json.forecast[5]
    /\ weather_data[2].data = LondonRecord

\* C14: errors leave no trace: whatever was handled before, with a result
\* or with -32601, -32602 or -32603, the server is as it was constructed and
\* answers the request as a server just constructed does (the reading of the
\* clock in the generic record apart).
C14_Fresh(now) == handle_request(InitialWeatherData, now, request)

C14_AnswersAsFreshServer ==
    /\ weather_data = InitialWeatherData
    /\ Answered =>
          \E now \in Clock :
              /\ C14_Fresh(now).kind = "return"
              /\ response = C14_Fresh(now).value

C14_Witness ==
    /\ Invoked("tools/call", "get_weather")
    /\ C7_LocationOf = PyStr(TokyoName)
    /\ previous = "-32602"
    /\ IsResult
    /\ response = C14_Fresh(1).value
    /\ ToolText = json_dumps(TokyoRecord)

\* C15: initialize always succeeds with protocolVersion '2024-11-05', the
\* capability map (resources, tools, prompts, logging) and serverInfo
\* 'simple-weather-mcp-server' '1.0.0', whatever params are sent; and the
\* other methods answer without initialize having been called: as the first
\* request of a server the lists, a read of a seeded uri and a weather call
\* give their results.
C15_InitializeResult ==
    [protocolVersion |-> "2024-11-05",
     capabilities |-> [resources |-> EmptyDict, tools |-> EmptyDict,
                       prompts |-> EmptyDict, logging |-> EmptyDict],
     serverInfo |-> [name |-> "simple-weather-mcp-server", version |-> "1.0.0"]]

C15_InitializeNeedsNothing ==
    /\ MethodIs("initialize") =>
          /\ IsResult
          /\ response = result_response(IdOf, C15_InitializeResult)
    /\ (Answered /\ previous = "none") =>
          /\ \A m \in {"resources/list", "tools/list", "prompts/list"} :
                MethodIs(m) => IsResult
          /\ (/\ CallOf("resources/read")
              /\ Get(ParamsOf, "uri", PyStr(<<>>)) = PyStr(WeatherScheme \o london)) =>
                (IsResult /\ response.result.contents[1].text = json_dumps(LondonRecord))
          /\ (Invoked("tools/call", "get_weather") /\ C7_LocationOf.t = "str") => IsResult
          /\ (Invoked("prompts/get", "weather_report") /\ C7_LocationOf.t = "str") => IsResult

C15_Witness ==
    /\ MethodIs("initialize")
    /\ ParamsOf = MkDict([protocolVersion |-> PyStr("1999-01-01")])
    /\ IsResult
    /\ response.result.protocolVersion = "2024-11-05"

\* C16: the day count is not validated: get_weather_forecast with
\* days <= 0 gives a result with an empty forecast and forecast_days as
\* given, negative included; a count above 7 gives that many entries; days
\* left out is days = 3; none of these is answered with an error.
C16_DayCountNotValidated ==
    Forecasting =>
        /\ (DaysOf.t = "int" /\ DaysOf.v <= 0) =>
              /\ IsResult
              /\ ToolText.json.forecast = <<>>
              /\ ToolText.json.forecast_days = DaysOf
        /\ (DaysOf.t = "int" /\ DaysOf.v > 7) =>
              /\ IsResult
              /\ Len(ToolText.json.forecast) = DaysOf.v
              /\ ToolText.json.forecast_days = DaysOf
        /\ "days" \notin DOMAIN ArgumentsOf.v =>
              /\ IsResult
              /\ Len(ToolText.json.forecast) = 3
              /\ ToolText.json.forecast_days = PyInt(3)
              /\ \E now \in Clock :
                    ToolText.json.forecast =
                        [j \in 1..3 |-> day_weather(Lookup(C7_LocationOf.v, now), j - 1)]

C16_Witness ==
    /\ Forecasting
    /\ DaysOf = PyInt(-2)
    /\ IsResult
    /\ ToolText.json.forecast = <<>>
    /\ ToolText.json.forecast_days = PyInt(-2)

\* C17: for every day count asked for, the date of every forecast entry is
\* a calendar date of January 2024: entry i (from 0) carries the day of the
\* month 16 + i, and that day never exceeds 31.
RECURSIVE C17_Number(_)
C17_Number(digits) ==
    IF digits = <<>> THEN 0
    ELSE (10 * C17_Number(SubSeq(digits, 1, Len(digits) - 1)))
            + ((CHOOSE d \in DOMAIN Digits : Digits[d] = digits[Len(digits)]) - 1)

C17_DayOfMonth(date) == C17_Number(SubSeq(date, 9, Len(date)))

C17_DatesAreJanuaryDays ==
    (Forecasting /\ IsResult) =>
        \A i \in 0..(Len(ToolText.json.forecast) - 1) :
            LET date == ToolText.json.forecast[i + 1].date
            IN /\ SubSeq(date, 1, 8) = <<"2","0","2","4","-","0","1","-">>
               /\ C17_DayOfMonth(date) = 16 + i
               /\ C17_DayOfMonth(date) >= 1
               /\ C17_DayOfMonth(date) <= 31

\* C18: the input schema is not enforced: get_weather whose arguments leave
\* out the required location, or give the empty string, is not answered
\* -32602; the location is the empty string, which every seeded key holds,
\* so the result carries the New York seed record, the first of the table,
\* not the generic record.
C18_MissingLocationGivesNewYork ==
    (/\ Invoked("tools/call", "get_weather")
     /\ \/ "location" \notin DOMAIN ArgumentsOf.v
        \/ C7_LocationOf = PyStr(<<>>)) =>
        /\ ~IsError(-32602)
        /\ "error" \notin DOMAIN response
        /\ IsResult
        /\ \A key \in {new_york, london, tokyo} : Contains(key, location_key_of(<<>>))
        /\ ToolText = json_dumps(NewYorkRecord)
        /\ ToolText.json.conditions # "Unknown"

C18_Witness ==
    /\ Invoked("tools/call", "get_weather")
    /\ "location" \notin DOMAIN ArgumentsOf.v
    /\ IsResult
    /\ ToolText = json_dumps(NewYorkRecord)

\* C19: every response of handle_request is a JSON-RPC envelope: jsonrpc is
\* '2.0', id is the id of the request (null when it has none), and it holds
\* exactly one of result and error, an error holding an integer code and a
\* message that is a string (an f-string or the str() of an exception).
C19_WellFormedEnvelope ==
    Answered =>
        /\ "jsonrpc" \in DOMAIN response
        /\ response.jsonrpc = "2.0"
        /\ "id" \in DOMAIN response
        /\ response.id = IdOf
        /\ "id" \notin DOMAIN request.v => response.id = None
        /\ \/ DOMAIN response = {"jsonrpc", "id", "result"}
           \/ DOMAIN response = {"jsonrpc", "id", "error"}
        /\ "error" \in DOMAIN response =>
              /\ DOMAIN response.error = {"code", "message"}
              /\ response.error.code \in Int
              /\ "text" \in DOMAIN response.error.message

C19_Witness ==
    /\ MethodIs("resources/read")
    /\ IdOf = PyInt(1)
    /\ IsError(-32603)
    /\ response.id = PyInt(1)
    /\ response.jsonrpc = "2.0"

\* C20: resources/read gives a result only for a uri that is exactly one of
\* the three uris resources/list returns; every other uri string, one that
\* holds weather:// more than once or embeds a city key included, is
\* answered -32602.
C20_ListedUris ==
    {WeatherScheme \o new_york, WeatherScheme \o london, WeatherScheme \o tokyo}

C20_OnlyListedUrisRead ==
    (CallOf("resources/read") /\ Get(ParamsOf, "uri", PyStr(<<>>)).t = "str") =>
        /\ IsResult => Get(ParamsOf, "uri", PyStr(<<>>)).v \in C20_ListedUris
        /\ Get(ParamsOf, "uri", PyStr(<<>>)).v \notin C20_ListedUris => IsError(-32602)

---------------------------------------------------------------------------
(* WeatherMCPServer, the server built on the mcp package: its table, its  *)
(* lookup and its forecast, which the tests call directly                  *)

\* self.mock_weather_data, in insertion order
mock_weather_data ==
    << [key |-> <<"n","e","w","_","y","o","r","k">>,
        data |-> [location |-> <<"N","e","w"," ","Y","o","r","k",","," ","N","Y">>,
                  temperature |-> 72, humidity |-> 65,
                  conditions |-> "Partly cloudy", wind_speed |-> 8,
                  last_updated |-> PyStr("2024-01-15T14:30:00Z")]],
       [key |-> <<"l","o","n","d","o","n">>,
        data |-> [location |-> <<"L","o","n","d","o","n",","," ","U","K">>,
                  temperature |-> 18, humidity |-> 78,
                  conditions |-> "Overcast", wind_speed |-> 12,
                  last_updated |-> PyStr("2024-01-15T14:30:00Z")]],
       [key |-> <<"t","o","k","y","o">>,
        data |-> [location |-> <<"T","o","k","y","o",","," ","J","a","p","a","n">>,
                  temperature |-> 25, humidity |-> 60,
                  conditions |-> "Clear", wind_speed |-> 5,
                  last_updated |-> PyStr("2024-01-15T14:30:00Z")]] >>

\* CallToolResult(content=[TextContent(type="text", text=text)], isError=...)
CallToolResult(text, isError) ==
    [content |-> <<[type |-> "text", text |-> text]>>, isError |-> isError]

\* variant: the table is indexed by the location key, no containment
WeatherMCPServer_get_weather_data_exact(now, location) ==
    IF ~HasAttr(location, "lower")
    THEN Raise(AttributeError(location, "lower"), mock_weather_data)
    ELSE LET location_key ==
                 Replace(Replace(Lower(location.v), <<" ">>, <<"_">>), <<",">>, <<>>)
         IN IF \E i \in DOMAIN mock_weather_data :
                   mock_weather_data[i].key = location_key
            THEN Return(Item(mock_weather_data, location_key), mock_weather_data)
            ELSE Return([location |-> location.v, temperature |-> 20,
                         humidity |-> 70, conditions |-> "Unknown",
                         wind_speed |-> 10,
                         last_updated |-> [t |-> "isoformat", v |-> now]],
                        mock_weather_data)

WeatherMCPServer_get_weather_data(now, location) ==
    IF ~HasAttr(location, "lower")
    THEN Raise(AttributeError(location, "lower"), mock_weather_data)
    ELSE LET location_key ==
                 Replace(Replace(Lower(location.v), <<" ">>, <<"_">>), <<",">>, <<>>)
             matches(key) ==
                 Contains(location_key, key) \/ Contains(key, location_key)
         IN IF \E i \in DOMAIN mock_weather_data : matches(mock_weather_data[i].key)
            THEN Return(mock_weather_data[
                            CHOOSE i \in DOMAIN mock_weather_data :
                               /\ matches(mock_weather_data[i].key)
                               /\ \A j \in 1..(i - 1) :
                                     ~matches(mock_weather_data[j].key)].data,
                        mock_weather_data)
            ELSE Return([location |-> location.v, temperature |-> 20,
                         humidity |-> 70, conditions |-> "Unknown",
                         wind_speed |-> 10,
                         last_updated |-> [t |-> "isoformat", v |-> now]],
                        mock_weather_data)

\* the try block answers with the record, the except block with an error text
WeatherMCPServer_get_weather(now, location) ==
    LET looked == WeatherMCPServer_get_weather_data(now, location)
    IN IF looked.kind = "raise"
       THEN CallToolResult([text |-> "Error getting weather for ",
                            arg |-> location, e |-> looked.value], TRUE)
       ELSE CallToolResult(json_dumps(looked.value), FALSE)

WeatherMCPServer_get_weather_forecast(now, location, days) ==
    LET looked == WeatherMCPServer_get_weather_data(now, location)
    IN IF looked.kind = "raise"
       THEN CallToolResult([text |-> "Error getting forecast for ",
                            arg |-> location, e |-> looked.value], TRUE)
       ELSE IF days.t \notin {"int", "bool"}
       THEN CallToolResult([text |-> "Error getting forecast for ",
                            arg |-> location, e |-> TypeError(days)], TRUE)
       ELSE LET count == IF days.t = "bool" THEN (IF days.v THEN 1 ELSE 0) ELSE days.v
                n == IF count > 0 THEN count ELSE 0
                base_weather == looked.value
                forecast ==
                    [j \in 1..n |->
                        [k \in DOMAIN base_weather \cup {"date"} |->
                            CASE k = "date" ->
                                   <<"2","0","2","4","-","0","1","-">> \o Decimal(16 + (j - 1))
                              [] k = "temperature" ->
                                   base_weather.temperature + (((j - 1) * 2) - 2)
                              [] OTHER -> base_weather[k]]]
            IN CallToolResult(json_dumps([location |-> location,
                                          forecast_days |-> days,
                                          forecast |-> forecast]), FALSE)

---------------------------------------------------------------------------
\* two weather records are the same, the time a generic record was made at
\* left aside
C21_SameRecord(a, b) ==
    /\ DOMAIN a = DOMAIN b
    /\ \A k \in DOMAIN a :
          IF k = "last_updated"
          THEN /\ a[k].t = b[k].t
               /\ a[k].t = "isoformat" \/ a[k].v = b[k].v
          ELSE a[k] = b[k]

\* C21: the two servers agree: for every location string and every
\* integer day count n >= 0, WeatherMCPServer and SimpleMCPServer resolve
\* the location to the same weather record and give the same forecast
\* entries (same length, temperatures, dates and other fields), the
\* timestamp of the generic record left aside.
C21_ServersAgree ==
    /\ (Invoked("tools/call", "get_weather") /\ C7_LocationOf.t = "str") =>
          /\ IsResult
          /\ \A now \in Clock :
                LET other == WeatherMCPServer_get_weather(now, C7_LocationOf)
                IN /\ ~other.isError
                   /\ C21_SameRecord(ToolText.json, other.content[1].text.json)
    /\ (Forecasting /\ DaysOf.t = "int" /\ DaysOf.v >= 0) =>
          /\ IsResult
          /\ \A now \in Clock :
                LET other == WeatherMCPServer_get_weather_forecast(now, C7_LocationOf, DaysOf)
                    theirs == other.content[1].text.json
                    mine == ToolText.json
                IN /\ ~other.isError
                   /\ mine.location = theirs.location
                   /\ mine.forecast_days = theirs.forecast_days
                   /\ Len(mine.forecast) = DaysOf.v
                   /\ Len(theirs.forecast) = DaysOf.v
                   /\ \A i \in 1..DaysOf.v :
                         /\ C21_SameRecord(mine.forecast[i], theirs.forecast[i])
                         /\ mine.forecast[i].temperature = theirs.forecast[i].temperature
                         /\ mine.forecast[i].date = theirs.forecast[i].date

C21_Witness ==
    /\ Forecasting
    /\ C7_LocationOf.v = <<"o","n">>
    /\ DaysOf = PyInt(3)
    /\ IsResult
    /\ \E now \in Clock :
          LET theirs == WeatherMCPServer_get_weather_forecast(now, C7_LocationOf, DaysOf)
                            .content[1].text.json
          IN /\ Len(theirs.forecast) = 3
             /\ theirs.forecast[3].location = LondonRecord.location
             /\ theirs.forecast[3].temperature = 20
             /\ theirs.forecast = ToolText.json.forecast

====
